---- MODULE Spec2Model ----
(***************************************************************************)
(* Model of the event-polling engine of plado: the dispatch queue          *)
(* (events/event_queue.py), the worker threads (events/event_thread.py),   *)
(* the jobs (events/event.py), the snapshot store (utils/storage.py) and   *)
(* the poll-cycle loop (event_monitoring.py).                              *)
(***************************************************************************)
EXTENDS Integers, Sequences, FiniteSets, TLC

\* ------------------------------------------------------------------ bounds
NumWorkers == 3        \* most worker threads (monitor_threads) of a configuration
MaxThreads == 2        \* most worker threads em_main starts in Spec
NumEvents == 2         \* number of configured events
NumJobs == 2           \* most jobs configured for one event
MaxPayloads == 2       \* most payloads one poll returns
MaxCycles == 2         \* poll cycles the main loop runs in the model
MaxPush == 3           \* pushes made by the queue client in SpecQueue
NumRepos == 1          \* repositories the configured events are spread over
NumEnts == 2           \* pull requests, and branches, of the polled repository
NumRevs == 2           \* reviewers a pull request can have
NumKeys == 2           \* keys used by the clients of the store in SpecStore
MaxRecLen == 1         \* most elements of a stored record
MaxOps == 3            \* calls made by the clients of the store in SpecStore

Workers == 1..NumWorkers
Events == 1..NumEvents
Repos == 1..NumRepos

\* the value of Python's None where an Event is expected
None == 0
\* EventJob.process is None
NoProcess == 0
\* EventJob.process is a Popen object whose process has ended and been
\* waited for; values in Workers are the live process spawned by that worker
Finished == NumWorkers + 1
\* the main thread as holder of a storage lock
MainThread == NumWorkers + 1
\* storage_obj_read found no file for the key
Absent == 0

VARIABLES
    queue,      \* EventQueue.queue: sequence of events
    qwait,      \* threads blocked in EventQueue.condition.wait(), oldest first
    pc,         \* position of every worker thread
    cur,        \* the worker's local `e`: result of its last pop
    waitarg,    \* the `wait` argument of the pop call in progress
    pushed,     \* history: every element pushed, in order
    popped,     \* history: every element removed from the queue, in order
    nthreads,   \* config monitor_threads: number of EventThreads started
    opc,        \* position of the main thread in em_main
    oi,         \* loop index of the main thread (event or thread number)
    owait,      \* main thread is inside is_waiting_on_queue_condition.wait()
    cycle,      \* number of the poll cycle in progress
    flag,       \* EventThread.is_waiting_on_queue
    res,        \* the worker's local `result`: number of payloads, 0 for None
    fi,         \* index of the payload (entry) being fired
    fj,         \* index of the job being fired or reaped
    handle,     \* EventJob.process of every job of every event
    wt,         \* the Popen object the worker's reap() is waiting on
    proc,       \* state of the process last spawned by each worker
    store,      \* snapshot file of each event key: the cycle that wrote it
    slock,      \* holder of the storage lock of each event key (0: free)
    lastpoll,   \* the stored "em_last_poll" record (cycle that wrote it)
    backup,     \* Event_PR.pr_backups as read by the worker's poll
    wcyc,       \* history: cycle in which the worker dequeued its event
    npoll,      \* history: number of poll() calls made on each event
    unreaped,   \* history: fire() was called on the job since its last reap()
    fired,      \* history: (payload, job) pairs spawned for the current poll
    leak,       \* history: the worker left a spawned process unwaited
    wasBlocked, \* history: the pop call in progress has blocked on the condition
    owed,       \* history: a push found a blocked waiter, and no waiter that
                \* was blocked has returned with an element since
    killflag,   \* EventThread.kill_flag
    kind,       \* config "type" of each event, in SpecPoll
    inc,        \* config include_new_pullreqs of the draft events
    live,       \* the repository as the remote service reports it, per key
    fetched,    \* Event_PR.prs / Event_Branch.branches of each event
    baks,       \* Event_PR.pr_backups / Event_Branch.branches_backups
    snap,       \* the stored record of each snapshot key
    out,        \* what the last poll_action of each event returned
    lpt,        \* Event.last_poll of each event
    now,        \* the clock: poll calls made so far
    dpc,        \* phase of the poll cycle in SpecPoll
    di,         \* the event the phase has come to
    dcyc,       \* number of the poll cycle in SpecPoll
    born,       \* creation_date of each pull request, 0 while it does not exist
    lastcall,   \* history: time of the last poll call on each event, in any
                \* run of the daemon; 0 before the first
    spc,        \* position of the main thread in em_init and em_main's prologue
    si,         \* index of the config entry em_init is creating an event for
    conf,       \* the configuration: monitor_events (their number), the number
                \* of jobs of each, monitor_poll_rate, monitor_threads
    ctime,      \* history: the time at which each event was constructed
    storage_locks, \* storage.storage_locks: the lock object of each key, 0
                \* while the key is not in the dictionary
    lockobjs,   \* the lock objects made for each key: the holder of each
    files,      \* the content of the file at each path of the storage directory
    scall,      \* the storage call each thread is in: position, function,
                \* key, obj, the local flock and the value last returned
    wrote,      \* history: the obj of the last completed write of each key
    sops,       \* history: number of storage calls made
    pullreq,    \* config "pullreq" of the event polled in SpecCompare
    owoken      \* history: a notify has ended a wait of the main thread on
                \* the flag of thread oi, and the main thread has not yet
                \* returned from wait_is_waiting_on_queue

qvars == <<queue, qwait, pushed, popped>>
bvars == <<spc, si, conf, ctime>>
kvars == <<storage_locks, lockobjs, files, scall, wrote, sops>>
evars == <<pullreq>>
tvars == <<killflag, kvars, evars>>
xvars == <<tvars, bvars>>
dvars == <<kind, inc, live, fetched, baks, snap, out, lpt, now, dpc, di, dcyc,
           born, lastcall>>
cvars == <<waitarg, wasBlocked, owed, xvars, dvars>>
lvars == <<cur, res, fi, fj, backup, wcyc, fired>>
fvars == <<flag, owait, owoken>>
ovars == <<opc, oi, cycle, nthreads>>
pvars == <<handle, wt, proc, unreaped, leak>>
svars == <<store, slock, lastpoll>>
engine == <<qvars, pc, lvars, waitarg, wasBlocked, owed, fvars, ovars, pvars,
            svars, npoll>>
mvars == <<res, fi, fj, backup, wcyc, fired, fvars, ovars, pvars, svars, npoll,
          xvars, dvars>>
vars == <<queue, qwait, pc, cur, waitarg, pushed, popped, nthreads, opc, oi,
          owait, cycle, flag, res, fi, fj, handle, wt, proc, store, slock,
          lastpoll, backup, wcyc, npoll, unreaped, fired, leak, wasBlocked, owed,
          killflag, kind, inc, live, fetched, baks, snap, out, lpt, now, dpc, di,
          dcyc, born, lastcall, spc, si, conf, ctime, storage_locks, lockobjs, files, scall,
          wrote, sops, pullreq, owoken>>

InSeq(x, s) == \E i \in 1..Len(s) : s[i] = x

\* ------------------------------------------------------------ EventQueue
\* list.pop(0): the element removed and the list that remains
ListPopTail(q) == <<q[Len(q)], SubSeq(q, 1, Len(q) - 1)>>
ListPop0Keep(q) == <<Head(q), q>>
ListPop0(q) == <<Head(q), Tail(q)>>

\* Condition.notify(): wake the longest-waiting thread, if there is one
NotifyNone(ws) == ws
Notify(ws) == IF ws = <<>> THEN ws ELSE Tail(ws)

\* EventQueue.push: append to the end, notify, all under the queue lock
Push(e) ==
    /\ queue' = Append(queue, e)
    /\ qwait' = Notify(qwait)
    /\ pushed' = Append(pushed, e)
    /\ UNCHANGED popped

\* the loop condition of pop: `while wait and len(self.queue) == 0`
PopMustWaitNever(wait, q) == FALSE
PopMustWait(wait, q) == wait /\ Len(q) = 0

\* EventQueue.pop, run by thread w, returning to position ret.  A thread
\* inside condition.wait() takes no step until a notify removes it from
\* qwait; it then re-evaluates the loop condition.
Pop(w, wait, ret) ==
    /\ pc[w] = "pop"
    /\ ~InSeq(w, qwait)
    /\ IF PopMustWait(wait, queue)
       THEN /\ qwait' = Append(qwait, w)
            /\ UNCHANGED <<queue, pushed, popped, pc, cur>>
       ELSE IF Len(queue) = 0
       THEN /\ cur' = [cur EXCEPT ![w] = None]
            /\ pc' = [pc EXCEPT ![w] = ret]
            /\ UNCHANGED qvars
       ELSE /\ cur' = [cur EXCEPT ![w] = ListPop0(queue)[1]]
            /\ queue' = ListPop0(queue)[2]
            /\ popped' = Append(popped, ListPop0(queue)[1])
            /\ pc' = [pc EXCEPT ![w] = ret]
            /\ UNCHANGED <<qwait, pushed>>

\* EventQueue.size
Size == Len(queue)

\* ------------------------------------------------------------ EventThread
\* The locals of run (e, result, the loop variables) and the history kept
\* for the event in hand are dead once run is back at the top of its loop or
\* has ended: they are given their initial values there.
Goto(w, p) ==
    /\ pc' = [pc EXCEPT ![w] = p]
    /\ IF p \in {"start", "dead", "stopped", "exited"}
       THEN /\ cur' = [cur EXCEPT ![w] = None]
            /\ res' = [res EXCEPT ![w] = 0]
            /\ fi' = [fi EXCEPT ![w] = 1]
            /\ fj' = [fj EXCEPT ![w] = 1]
            /\ backup' = [backup EXCEPT ![w] = Absent]
            /\ wcyc' = [wcyc EXCEPT ![w] = 0]
            /\ fired' = [fired EXCEPT ![w] = <<>>]
       ELSE UNCHANGED lvars

\* set_is_waiting_on_queue: assign the flag and notify the flag's condition;
\* the main thread is the only thread that ever waits on it
SetFlagSilent(w, val) ==
    /\ flag' = [flag EXCEPT ![w] = val]
    /\ UNCHANGED <<owait, owoken>>
SetFlag(w, val) ==
    /\ flag' = [flag EXCEPT ![w] = val]
    /\ owait' = IF owait /\ oi = w THEN FALSE ELSE owait
    /\ owoken' = IF owait /\ oi = w THEN TRUE ELSE owoken

\* kill, lines 71-77: set kill_flag under kill_lock; any thread may call it
\* at any time on a thread em_main has created
KillThread(w) ==
    /\ w <= nthreads
    /\ killflag' = [killflag EXCEPT ![w] = TRUE]
    /\ UNCHANGED <<engine, dvars, bvars, kvars, evars>>

\* should_stop reads kill_flag under kill_lock and returns nothing: the
\* caller sees None, which `not` turns into True
ShouldStop(w) == FALSE

\* run, line 99: set_is_waiting_on_queue(True)
WSetWaiting(w) ==
    /\ pc[w] = "start"
    /\ SetFlag(w, TRUE)
    /\ Goto(w, "pop")
    /\ UNCHANGED <<qvars, cvars, ovars, pvars, svars, npoll>>

\* run, line 101: e = self.equeue.pop(wait=(not self.should_stop()))
WPop(w) ==
    /\ Pop(w, ~ShouldStop(w), "clear")
    /\ wcyc' = IF pc'[w] = "clear" /\ cur'[w] # None
               THEN [wcyc EXCEPT ![w] = cycle] ELSE wcyc
    /\ UNCHANGED <<res, fi, fj, backup, fired, cvars, fvars, ovars, pvars,
                   svars, npoll>>

\* run, lines 102-109: set_is_waiting_on_queue(False); leave on None
WClearWaiting(w) ==
    /\ pc[w] = "clear"
    /\ SetFlag(w, FALSE)
    /\ Goto(w, IF cur[w] = None THEN "stopped" ELSE "poll")
    /\ UNCHANGED <<qvars, cvars, ovars, pvars, svars, npoll>>

\* ---------------------------------------------------------------- Event
\* the storage key of an event: pr_backup_key is built from the project and
\* the repository of its config; events are spread over the repositories
KeyOf(e) == ((e - 1) % NumRepos) + 1

\* the kind of an event: the first tracks creation, the others a change
\* against the stored backup
EventKind(e) == IF e = 1 THEN "pr_create" ELSE "pr_draft_on"

\* Event.__init__, lines 111-125: the jobs of the event's config, at least
\* one; the first event has one job, the others NumJobs
NumJobsOf(e) == IF e = 1 THEN 1 ELSE NumJobs
JobsOf(e) == 1..NumJobsOf(e)

\* the number of payloads poll_action may return (0 stands for None), given
\* the backup it read: a change kind returns None without a backup
PollResults(e, b) ==
    IF EventKind(e) # "pr_create" /\ b = Absent THEN {0} ELSE 0..MaxPayloads

\* Event.poll -> Event_PR.poll_action, line 98: fetch the pull requests
WPollFetch(w) ==
    /\ pc[w] = "poll"
    /\ npoll' = [npoll EXCEPT ![cur[w]] = @ + 1]
    /\ Goto(w, "read")
    /\ UNCHANGED <<qvars, cvars, fvars, ovars, pvars, svars>>

\* Event.poll -> poll_action, line 98, when the remote lookup fails: the
\* ado_* call catches the exception and calls panic, whose sys.exit(1)
\* raises SystemExit in the calling thread; it leaves poll and run, and the
\* thread ends
WPollFail(w) ==
    /\ pc[w] = "poll"
    /\ npoll' = [npoll EXCEPT ![cur[w]] = @ + 1]
    /\ Goto(w, "exited")
    /\ UNCHANGED <<qvars, cvars, fvars, ovars, pvars, svars>>

\* the rest of poll_action and of poll once the backup b is known, and
\* run, lines 114-116: re-loop when the result is None
PollFinish(w, b) ==
    \E n \in PollResults(cur[w], b) :
        IF n = 0 THEN Goto(w, "start")
        ELSE /\ pc' = [pc EXCEPT ![w] = "spawn"]
             /\ backup' = [backup EXCEPT ![w] = b]
             /\ res' = [res EXCEPT ![w] = n]
             /\ UNCHANGED <<cur, fi, fj, wcyc, fired>>

\* storage_obj_read(key, lock=True), lines 97-100: no file means None at
\* once, without the lock
WPollRead(w) ==
    /\ pc[w] = "read"
    /\ IF store[KeyOf(cur[w])] = Absent
       THEN PollFinish(w, Absent)
       ELSE Goto(w, "lock")
    /\ UNCHANGED <<qvars, cvars, fvars, ovars, pvars, svars, npoll>>

\* storage_obj_read, lines 102-105: acquire the key's lock
WPollLock(w) ==
    /\ pc[w] = "lock"
    /\ slock[KeyOf(cur[w])] = 0
    /\ slock' = [slock EXCEPT ![KeyOf(cur[w])] = w]
    /\ Goto(w, "load")
    /\ UNCHANGED <<qvars, cvars, fvars, ovars, pvars, store, lastpoll, npoll>>

\* storage_obj_read, lines 107-115: load the file, release the lock
WPollLoad(w) ==
    /\ pc[w] = "load"
    /\ slock' = [slock EXCEPT ![KeyOf(cur[w])] = 0]
    /\ PollFinish(w, store[KeyOf(cur[w])])
    /\ UNCHANGED <<qvars, cvars, fvars, ovars, pvars, store, lastpoll, npoll>>

\* ------------------------------------------------------------- EventJob
\* a process has ended and its owner has waited for it: every reference to
\* it is now a reference to a finished Popen object
Collected(refs, w) ==
    [x \in DOMAIN refs |-> IF refs[x] = w THEN Finished ELSE refs[x]]
CollectedHandles(hd, w) == [e \in Events |-> Collected(hd[e], w)]

\* Popen.kill on the object h: no effect unless its process is running
Kill(pr, h) ==
    IF h \in Workers /\ pr[h] = "running" THEN [pr EXCEPT ![h] = "killed"]
    ELSE pr

\* run, lines 125-128: the position after fire(entry, wait=False) returned
AfterFireJobMajor(w) ==
    IF fi[w] < res[w] THEN <<"spawn", fi[w] + 1, fj[w]>>
    ELSE IF fj[w] < NumJobsOf(cur[w]) THEN <<"spawn", 1, fj[w] + 1>>
    ELSE <<"reap", fi[w], 1>>
AfterFire(w) ==
    IF fj[w] < NumJobsOf(cur[w]) THEN <<"spawn", fi[w], fj[w] + 1>>
    ELSE IF fi[w] < res[w] THEN <<"spawn", fi[w] + 1, 1>>
    ELSE <<"reap", fi[w], 1>>

\* run, lines 131-134: the position after job.reap() returned
AfterReap(w) ==
    IF fj[w] < NumJobsOf(cur[w]) THEN <<"reap", fi[w], fj[w] + 1>>
    ELSE <<"start", 1, 1>>

\* move to position pos = <<pc, payload index, job index>>
Move(w, pos) ==
    IF pos[1] = "start" THEN Goto(w, "start")
    ELSE /\ pc' = [pc EXCEPT ![w] = pos[1]]
         /\ fi' = [fi EXCEPT ![w] = pos[2]]
         /\ fj' = [fj EXCEPT ![w] = pos[3]]
         /\ UNCHANGED <<cur, res, backup, wcyc, fired>>

\* an exception leaves run: the thread ends.  A process it spawned and did
\* not wait for stays behind.
Die(w) ==
    /\ Goto(w, "dead")
    /\ leak' = [leak EXCEPT ![w] = @ \/ proc[w] # "none"]
    /\ proc' = [proc EXCEPT ![w] = "none"]
    /\ wt' = [Collected(wt, w) EXCEPT ![w] = NoProcess]
    /\ UNCHANGED handle

\* fire returns self.process to run; pr, hd, wtt are the processes, handles
\* and wait targets it leaves.  A process of this worker that nobody waited
\* for is no longer referenced by it.
LeaveFire(w, pr, hd, wtt) ==
    /\ leak' = [leak EXCEPT ![w] = @ \/ pr[w] # "none"]
    /\ proc' = [pr EXCEPT ![w] = "none"]
    /\ handle' = hd
    /\ wt' = [Collected(wtt, w) EXCEPT ![w] = NoProcess]
    /\ Move(w, AfterFire(w))

\* reap returns to the loop of run, lines 131-132
LeaveReap(w, pr, hd, wtt) ==
    /\ proc' = pr
    /\ handle' = hd
    /\ wt' = [wtt EXCEPT ![w] = NoProcess]
    /\ Move(w, AfterReap(w))
    /\ UNCHANGED leak

\* fire, lines 64-75: subprocess.Popen starts the program of the job
WSpawnOk(w) ==
    /\ pc[w] = "spawn"
    /\ unreaped' = [unreaped EXCEPT ![cur[w]][fj[w]] = TRUE]
    /\ handle' = [handle EXCEPT ![cur[w]][fj[w]] = w]
    /\ proc' = [proc EXCEPT ![w] = "running"]
    /\ fired' = [fired EXCEPT ![w] = Append(@, <<fi[w], fj[w]>>)]
    /\ pc' = [pc EXCEPT ![w] = "comm"]
    /\ UNCHANGED <<cur, res, fi, fj, backup, wcyc, wt, leak>>
    /\ UNCHANGED <<qvars, cvars, fvars, ovars, svars, npoll>>

\* fire, line 73: subprocess.Popen raises when the program cannot be
\* started; the exception leaves fire and run
WSpawnFail(w) ==
    /\ pc[w] = "spawn"
    /\ unreaped' = [unreaped EXCEPT ![cur[w]][fj[w]] = TRUE]
    /\ Die(w)
    /\ UNCHANGED <<qvars, cvars, fvars, ovars, svars, npoll>>

\* subprocess.Popen in fire: the process starts or the call raises
WSpawn(w) == WSpawnOk(w) \/ WSpawnFail(w)

\* fire, lines 78-82: communicate returns once the process has ended (by
\* itself or killed by another thread) and has been waited for; lines 89-92
WCommReturn(w) ==
    /\ pc[w] = "comm"
    /\ proc[w] # "none"
    /\ LeaveFire(w, [proc EXCEPT ![w] = "none"], CollectedHandles(handle, w), wt)
    /\ UNCHANGED <<qvars, cvars, fvars, ovars, svars, npoll, unreaped>>

\* fire, lines 83-85: communicate raises TimeoutExpired while the process
\* still runs; self.process.kill() acts on the job's current handle
WCommTimeout(w) ==
    /\ pc[w] = "comm"
    /\ proc[w] = "running"
    /\ IF handle[cur[w]][fj[w]] = NoProcess
       THEN Die(w)
       ELSE /\ proc' = Kill(proc, handle[cur[w]][fj[w]])
            /\ pc' = [pc EXCEPT ![w] = "freap"]
            /\ UNCHANGED <<lvars, handle, wt, leak>>
    /\ UNCHANGED <<qvars, cvars, fvars, ovars, svars, npoll, unreaped>>

\* reap returns to its caller: fire (line 86) or the loop of run
Leave(callpc, w, pr, hd, wtt) ==
    IF callpc = "freap" THEN LeaveFire(w, pr, hd, wtt)
    ELSE LeaveReap(w, pr, hd, wtt)

\* reap, lines 39-46: the assertion, then self.process.wait(timeout=...),
\* which returns at once when the process has ended and blocks while it
\* runs.  A process that was sent SIGKILL ends on its own time: the wait
\* returns when it has ended, or raises TimeoutExpired when it has not
\* within the timeout, and then self.process.kill() and self.process = None;
\* the killed process of the caller ends soon after and is followed no
\* further.
ReapCall(w, callpc, waitpc) ==
    /\ pc[w] = callpc
    /\ unreaped' = [unreaped EXCEPT ![cur[w]][fj[w]] = FALSE]
    /\ LET h == handle[cur[w]][fj[w]] IN
       IF h = NoProcess THEN Die(w)
       ELSE IF h \in Workers /\ proc[h] = "running"
       THEN /\ pc' = [pc EXCEPT ![w] = waitpc]
            /\ wt' = [wt EXCEPT ![w] = h]
            /\ UNCHANGED <<lvars, handle, proc, leak>>
       ELSE \/ IF h = w
               THEN Leave(callpc, w, [proc EXCEPT ![w] = "none"],
                          CollectedHandles(handle, w), Collected(wt, w))
               ELSE Leave(callpc, w, proc, handle, wt)
            \/ /\ h \in Workers
               /\ proc[h] = "killed"
               /\ IF h = w
                  THEN Leave(callpc, w, [proc EXCEPT ![w] = "none"],
                             [CollectedHandles(handle, w)
                                  EXCEPT ![cur[w]][fj[w]] = NoProcess],
                             Collected(wt, w))
                  ELSE Leave(callpc, w, proc,
                             [handle EXCEPT ![cur[w]][fj[w]] = NoProcess], wt)
    /\ UNCHANGED <<qvars, cvars, fvars, ovars, svars, npoll>>

\* reap, lines 41-46: the blocked wait returns when the process has ended,
\* or raises TimeoutExpired: self.process.kill(), then self.process = None
ReapWait(w, callpc, waitpc) ==
    /\ pc[w] = waitpc
    /\ LET t == wt[w]
           h == handle[cur[w]][fj[w]] IN
       \/ /\ IF t \in Workers THEN proc[t] # "running" ELSE TRUE
          /\ Leave(callpc, w, proc, handle, wt)
       \/ /\ t \in Workers
          /\ proc[t] = "running"
          /\ Leave(callpc, w, [proc EXCEPT ![t] = "exited"], handle, wt)
       \/ /\ t \in Workers
          /\ proc[t] = "running"
          /\ IF h = NoProcess THEN Die(w)
             ELSE Leave(callpc, w, Kill(proc, h),
                        [handle EXCEPT ![cur[w]][fj[w]] = NoProcess], wt)
    /\ UNCHANGED <<qvars, cvars, fvars, ovars, svars, npoll, unreaped>>

\* fire, line 86: self.reap() after the kill
WFireReap(w) == ReapCall(w, "freap", "fwait")
WFireReapWait(w) == ReapWait(w, "freap", "fwait")

\* run, lines 131-132: for job in e.jobs: job.reap()
WReap(w) == ReapCall(w, "reap", "rwait")
WReapWait(w) == ReapWait(w, "reap", "rwait")

\* ------------------------------------------------------------- em_main
\* lines 139-140: for e in events: equeue.push(e)
OPush ==
    /\ opc = "push"
    /\ Push(oi)
    /\ IF oi < NumEvents
       THEN oi' = oi + 1 /\ UNCHANGED opc
       ELSE oi' = 1 /\ opc' = "drain"
    /\ UNCHANGED <<pc, lvars, cvars, fvars, cycle, nthreads, pvars, svars,
                   npoll>>

\* lines 143-144: while equeue.size() > 0: pass
ODrain ==
    /\ opc = "drain"
    /\ Size = 0
    /\ opc' = "barrier"
    /\ oi' = 1
    /\ UNCHANGED <<qvars, pc, lvars, cvars, fvars, cycle, nthreads, pvars,
                   svars, npoll>>

\* lines 148-149 and wait_is_waiting_on_queue: return when the flag of
\* thread oi is seen True, else wait on its condition until notified
OBarrier ==
    /\ opc = "barrier"
    /\ ~owait
    /\ IF flag[oi]
       THEN /\ IF oi < nthreads
               THEN oi' = oi + 1 /\ UNCHANGED opc
               ELSE oi' = 1 /\ opc' = "cleanup"
            /\ owoken' = FALSE
            /\ UNCHANGED owait
       ELSE /\ owait' = TRUE
            /\ UNCHANGED <<opc, oi, owoken>>
    /\ UNCHANGED <<qvars, pc, lvars, cvars, flag, cycle, nthreads, pvars,
                   svars, npoll>>

\* Event.cleanup, called at line 155, invokes cleanup_action
CleanupCalls(e) == TRUE

\* lines 154-155: e.cleanup() -> Event_PR.cleanup_action ->
\* storage_obj_write(key, prs), lines 76-81: acquire the key's lock
OCleanup ==
    /\ opc = "cleanup"
    /\ IF CleanupCalls(oi)
       THEN /\ slock[KeyOf(oi)] = 0
            /\ slock' = [slock EXCEPT ![KeyOf(oi)] = MainThread]
            /\ opc' = "write"
            /\ UNCHANGED oi
       ELSE /\ IF oi < NumEvents
               THEN oi' = oi + 1 /\ UNCHANGED opc
               ELSE oi' = 1 /\ opc' = "persist"
            /\ UNCHANGED slock
    /\ UNCHANGED <<qvars, pc, lvars, cvars, fvars, cycle, nthreads, pvars,
                   store, lastpoll, npoll>>

\* storage_obj_write, lines 83-87: write the event's PRs, release the lock
OWrite ==
    /\ opc = "write"
    /\ store' = [store EXCEPT ![KeyOf(oi)] = cycle]
    /\ slock' = [slock EXCEPT ![KeyOf(oi)] = 0]
    /\ IF oi < NumEvents
       THEN oi' = oi + 1 /\ opc' = "cleanup"
       ELSE oi' = 1 /\ opc' = "persist"
    /\ UNCHANGED <<qvars, pc, lvars, cvars, fvars, cycle, nthreads, pvars,
                   lastpoll, npoll>>

\* line 159: storage_obj_write("em_last_poll", now)
OPersistEarly ==
    /\ opc = "cleanup"
    /\ lastpoll' = cycle
    /\ opc' = "sleep"
    /\ UNCHANGED <<qvars, pc, lvars, cvars, fvars, oi, cycle, nthreads,
                   pvars, store, slock, npoll>>
OPersist ==
    /\ opc = "persist"
    /\ lastpoll' = cycle
    /\ opc' = "sleep"
    /\ UNCHANGED <<qvars, pc, lvars, cvars, fvars, oi, cycle, nthreads,
                   pvars, store, slock, npoll>>

\* line 160: time.sleep(poll_rate), then the next iteration of the loop
OSleep ==
    /\ opc = "sleep"
    /\ cycle < MaxCycles
    /\ cycle' = cycle + 1
    /\ opc' = "push"
    /\ UNCHANGED <<qvars, pc, lvars, cvars, fvars, oi, nthreads, pvars,
                   svars, npoll>>

\* ------------------------------------ the data of one repository's events
Ents == 1..NumEnts
EntSeq == [i \in 1..NumEnts |-> i]

\* the event types modelled with their data
Kinds == {"pr_draft_on", "branch_commit_new"}

\* pr_backup_key and branches_backup_key of the one repository
Keys == {"pullreqs", "branches"}
SnapKey(k) == IF k = "branch_commit_new" THEN "branches" ELSE "pullreqs"

\* what is known of an entity: a pull request is absent, or active with
\* is_draft False or True; a branch is absent or has a latest commit id
States(key) ==
    IF key = "pullreqs" THEN {"none", "ready", "draft"} ELSE {"none", "c1", "c2"}

\* self.prs = [] / self.branches = [], and the dict made of an empty list
EmptyMap == [x \in Ents |-> "none"]

\* storage_obj_read found no file for the key: None in the place of a dict
NoRecord == [x \in Ents |-> "absent"]

\* Event_PR_Draft_On.poll_action after super().poll_action(): the pull
\* requests to report, <<>> for None
DraftOnPollActionUnguarded(prs, backups, include_new, desired) ==
    LET old == IF backups = NoRecord THEN EmptyMap ELSE backups
        Hit(p) == /\ prs[p] # "none"
                  /\ IF old[p] = "none"
                     THEN prs[p] = desired /\ include_new
                     ELSE old[p] # desired /\ prs[p] = desired
    IN  SelectSeq(EntSeq, Hit)
DraftOnPollAction(prs, backups, include_new, desired) ==
    IF backups = NoRecord THEN <<>>
    ELSE LET Hit(p) == /\ prs[p] # "none"
                       /\ IF backups[p] = "none"
                          THEN prs[p] = desired /\ include_new
                          ELSE backups[p] # desired /\ prs[p] = desired
         IN  SelectSeq(EntSeq, Hit)

\* Event_Branch_Commit_New.poll_action after super().poll_action()
BranchCommitNewPollAction(brs, backups) ==
    IF backups = NoRecord THEN <<>>
    ELSE LET Hit(b) == /\ brs[b] # "none"
                       /\ backups[b] # "none"
                       /\ brs[b] # backups[b]
         IN  SelectSeq(EntSeq, Hit)

\* poll_action of an event of type k; desired_state of draft-on is True
PollAction(k, ents, backups, include_new) ==
    IF k = "branch_commit_new" THEN BranchCommitNewPollAction(ents, backups)
    ELSE DraftOnPollAction(ents, backups, include_new, "draft")

\* Event_PR_Create.poll_action after super().poll_action(): the pull
\* requests whose creation_date is later than last_poll (diff < 0); the
\* clock of the machine is UTC
CreatePollAction(prs, dates, last_poll) ==
    LET Hit(p) == prs[p] # "none" /\ last_poll - dates[p] < 0
    IN  SelectSeq(EntSeq, Hit)

\* the loops of em_main over the events: the next event, or the next phase
Advance(next) ==
    IF di < NumEvents THEN di' = di + 1 /\ UNCHANGED dpc
    ELSE di' = 1 /\ dpc' = next

\* Event.poll, called by the worker for event di: poll_action fetches the
\* entities, reads the backup and compares; then set_last_poll_time(now)
EventPoll ==
    /\ dpc = "poll"
    /\ LET key == SnapKey(kind[di]) IN
       /\ fetched' = [fetched EXCEPT ![di] = live[key]]
       /\ baks' = [baks EXCEPT ![di] = snap[key]]
       /\ out' = [out EXCEPT ![di] =
                     IF kind[di] = "pr_create"
                     THEN CreatePollAction(live[key], born, lpt[di])
                     ELSE PollAction(kind[di], live[key], snap[key], inc)]
    /\ now' = now + 1
    /\ lpt' = [lpt EXCEPT ![di] = now + 1]
    /\ lastcall' = [lastcall EXCEPT ![di] = now + 1]
    /\ Advance("cleanup")
    /\ UNCHANGED <<kind, inc, live, snap, dcyc, born, engine, xvars>>

\* Event.poll when the remote lookup of poll_action fails: panic raises
\* SystemExit, which leaves poll_action and poll at once and ends the thread
EventPollFail ==
    /\ dpc = "poll"
    /\ now' = now + 1
    /\ dpc' = "failed"
    /\ UNCHANGED <<kind, inc, live, fetched, baks, snap, out, lpt, di, dcyc,
                   born, lastcall, engine, xvars>>

\* cleanup_action of event di: the dict of self.prs (self.branches) is
\* written under the event's key
EventCleanup ==
    /\ dpc = "cleanup"
    /\ snap' = [snap EXCEPT ![SnapKey(kind[di])] = fetched[di]]
    /\ Advance("persist")
    /\ UNCHANGED <<kind, inc, live, fetched, baks, out, lpt, now, dcyc, born,
                   lastcall, engine, xvars>>

\* em_main, line 159: storage_obj_write("em_last_poll", now)
CyclePersist ==
    /\ dpc = "persist"
    /\ now' = now + 1
    /\ lastpoll' = now + 1
    /\ dpc' = "sleep"
    /\ UNCHANGED <<kind, inc, live, fetched, baks, snap, out, lpt, di, dcyc,
                   born, lastcall, qvars, pc, lvars, waitarg, wasBlocked, owed,
                   fvars, ovars, pvars, store, slock, npoll, xvars>>

\* time.sleep(poll_rate), then the next cycle
CycleSleep ==
    /\ dpc = "sleep"
    /\ dcyc < MaxCycles
    /\ dcyc' = dcyc + 1
    /\ dpc' = "poll"
    /\ UNCHANGED <<kind, inc, live, fetched, baks, snap, out, lpt, now, di,
                   born, lastcall, engine, xvars>>

\* the users of the repository change an entity.  Only a fetch sees the
\* repository, so a change is taken when a poll is next, and only under a
\* key some event fetches.
RepoChange ==
    /\ dpc = "poll"
    /\ \E key \in {SnapKey(kind[e]) : e \in Events}, x \in Ents :
           \E v \in States(key) :
               /\ live[key][x] # v
               /\ live' = [live EXCEPT ![key][x] = v]
    /\ UNCHANGED <<kind, inc, fetched, baks, snap, out, lpt, now, dpc, di, dcyc,
                   born, lastcall, engine, xvars>>

\* the event objects after construction, before any poll
DataInit ==
    /\ fetched = [e \in Events |-> EmptyMap]
    /\ baks = [e \in Events |-> NoRecord]
    /\ snap = [key \in Keys |-> NoRecord]
    /\ out = [e \in Events |-> <<>>]
    /\ lpt = [e \in Events |-> 0]
    /\ now = 0
    /\ di = 1
    /\ dcyc = 1
    /\ born = [x \in Ents |-> 0]
    /\ lastcall = [e \in Events |-> 0]

\* the data is not followed in the specifications of the engine
DataIdle ==
    /\ kind = [e \in Events |-> EventKind(e)]
    /\ inc = FALSE
    /\ live = [key \in Keys |-> EmptyMap]
    /\ dpc = "off"
    /\ DataInit

\* ------------------------------------------------------ utils/storage.py
SKeys == 1..NumKeys

\* the objects the clients store: flat lists
Records == UNION {[1..n -> 1..MaxRecLen] : n \in 0..MaxRecLen}

\* Python's None where a stored object is expected
NoObj == <<0>>

\* os.path.isfile is False for the path
NoFile == <<-1>>

\* storage_obj_path: the file of a key is named by the SHA-512 of the key
\* under the directory of the configuration, one path per key
ObjPathShared(key) == 1
ObjPath(key) == key

\* pickle.dump and pickle.load on flat lists: the length, then the elements
Dump(obj) == <<Len(obj)>> \o obj
Loadable(bytes) == IF bytes = <<>> THEN FALSE ELSE bytes[1] = Len(bytes) - 1
Load(bytes) == SubSeq(bytes, 2, Len(bytes))

\* a thread that is in no storage call
NoCall == [pos |-> "idle", fn |-> "none", key |-> 1, obj |-> <<>>, flock |-> 0,
           ret |-> NoObj]

\* the position of thread t moves to p, with the local flock and the value
\* returned as given
SGoto(t, p, fl, rv) ==
    scall' = [scall EXCEPT ![t].pos = p, ![t].flock = fl, ![t].ret = rv]

\* a thread calls storage_obj_write(key, obj) or storage_obj_read(key), with
\* lock=True; a write goes to storage_lock at once (line 79), a read first
\* looks for the file (line 99)
StorageCall(t, fn, key, obj) ==
    /\ t <= nthreads
    /\ scall[t].pos = "idle"
    /\ sops < MaxOps
    /\ sops' = sops + 1
    /\ scall' = [scall EXCEPT ![t] =
                    [pos |-> IF fn = "read" THEN "isfile" ELSE "lock_check",
                     fn |-> fn, key |-> key, obj |-> obj, flock |-> 0,
                     ret |-> NoObj]]
    /\ UNCHANGED <<storage_locks, lockobjs, files, wrote>>

\* storage_obj_read, lines 99-100: no file, return None
StorageIsFile(t) ==
    /\ scall[t].pos = "isfile"
    /\ IF files[ObjPath(scall[t].key)] = NoFile
       THEN SGoto(t, "idle", 0, NoObj)
       ELSE SGoto(t, "lock_check", 0, NoObj)
    /\ UNCHANGED <<storage_locks, lockobjs, files, wrote, sops>>

\* storage_lock, line 31: if key not in storage_locks
StorageLockCheck(t) ==
    /\ scall[t].pos = "lock_check"
    /\ IF storage_locks[scall[t].key] = 0
       THEN SGoto(t, "lock_new", 0, NoObj)
       ELSE SGoto(t, "lock_get", 0, NoObj)
    /\ UNCHANGED <<storage_locks, lockobjs, files, wrote, sops>>

\* storage_lock, line 32: storage_locks[key] = threading.Lock()
StorageLockNew(t) ==
    /\ scall[t].pos = "lock_new"
    /\ lockobjs' = [lockobjs EXCEPT ![scall[t].key] = Append(@, 0)]
    /\ storage_locks' = [storage_locks EXCEPT ![scall[t].key] =
                            Len(lockobjs[scall[t].key]) + 1]
    /\ SGoto(t, "lock_get", 0, NoObj)
    /\ UNCHANGED <<files, wrote, sops>>

\* storage_lock, line 33: return storage_locks[key]
StorageLockGet(t) ==
    /\ scall[t].pos = "lock_get"
    /\ SGoto(t, "acquire", storage_locks[scall[t].key], NoObj)
    /\ UNCHANGED <<storage_locks, lockobjs, files, wrote, sops>>

\* lines 80-81 and 104-105: flock.acquire()
StorageAcquire(t) ==
    /\ scall[t].pos = "acquire"
    /\ lockobjs[scall[t].key][scall[t].flock] = 0
    /\ lockobjs' = [lockobjs EXCEPT ![scall[t].key][scall[t].flock] = t]
    /\ SGoto(t, "open", scall[t].flock, NoObj)
    /\ UNCHANGED <<storage_locks, files, wrote, sops>>

\* line 83: open(fpath, "wb") creates or truncates the file; line 109:
\* open(fpath, "rb")
StorageOpen(t) ==
    /\ scall[t].pos = "open"
    /\ IF scall[t].fn = "write"
       THEN /\ files' = [files EXCEPT ![ObjPath(scall[t].key)] = <<>>]
            /\ SGoto(t, "dump", scall[t].flock, NoObj)
       ELSE /\ SGoto(t, "load", scall[t].flock, NoObj)
            /\ UNCHANGED files
    /\ UNCHANGED <<storage_locks, lockobjs, wrote, sops>>

\* line 84: pickle.dump(obj, fp), and the file is closed
StorageDump(t) ==
    /\ scall[t].pos = "dump"
    /\ files' = [files EXCEPT ![ObjPath(scall[t].key)] = Dump(scall[t].obj)]
    /\ SGoto(t, "release", scall[t].flock, NoObj)
    /\ UNCHANGED <<storage_locks, lockobjs, wrote, sops>>

\* line 110: pickle.load(fp), which raises on a file it cannot parse; the
\* exception leaves storage_obj_read with the lock held
StorageLoad(t) ==
    /\ scall[t].pos = "load"
    /\ IF Loadable(files[ObjPath(scall[t].key)])
       THEN SGoto(t, "release", scall[t].flock,
                  Load(files[ObjPath(scall[t].key)]))
       ELSE SGoto(t, "raised", scall[t].flock, NoObj)
    /\ UNCHANGED <<storage_locks, lockobjs, files, wrote, sops>>

\* lines 86-87 and 113-115: flock.release() and return
StorageRelease(t) ==
    /\ scall[t].pos = "release"
    /\ lockobjs' = [lockobjs EXCEPT ![scall[t].key][scall[t].flock] = 0]
    /\ wrote' = IF scall[t].fn = "write"
                THEN [wrote EXCEPT ![scall[t].key] = scall[t].obj] ELSE wrote
    /\ SGoto(t, "idle", 0, scall[t].ret)
    /\ UNCHANGED <<storage_locks, files, sops>>

\* the store of a new process on a machine without stored files
StoreIdle ==
    /\ storage_locks = [k \in SKeys |-> 0]
    /\ lockobjs = [k \in SKeys |-> <<>>]
    /\ files = [k \in SKeys |-> NoFile]
    /\ scall = [t \in Workers |-> NoCall]
    /\ wrote = [k \in SKeys |-> NoObj]
    /\ sops = 0

\* the configuration the modelled events and n threads were made from
GoodConf(n) ==
    [monitor_events |-> NumEvents,
     jobs |-> [e \in Events |-> NumJobsOf(e)],
     monitor_poll_rate |-> 1,
     monitor_threads |-> n]

\* em_init and the prologue of em_main have run with n threads configured
Booted(n) ==
    /\ spc = "run"
    /\ si = 1
    /\ conf = GoodConf(n)
    /\ ctime = [e \in Events |-> 0]

\* the state of the jobs, the store and the histories after construction
InitRest ==
    /\ oi = 1
    /\ owait = FALSE
    /\ owoken = FALSE
    /\ cycle = 1
    /\ flag = [w \in Workers |-> FALSE]
    /\ res = [w \in Workers |-> 0]
    /\ fi = [w \in Workers |-> 1]
    /\ fj = [w \in Workers |-> 1]
    /\ handle = [e \in Events |-> [j \in JobsOf(e) |-> NoProcess]]
    /\ wt = [w \in Workers |-> NoProcess]
    /\ proc = [w \in Workers |-> "none"]
    /\ store = [k \in Repos |-> Absent]
    /\ slock = [k \in Repos |-> 0]
    /\ lastpoll = 0
    /\ backup = [w \in Workers |-> Absent]
    /\ wcyc = [w \in Workers |-> 0]
    /\ npoll = [e \in Events |-> 0]
    /\ unreaped = [e \in Events |-> [j \in JobsOf(e) |-> FALSE]]
    /\ fired = [w \in Workers |-> <<>>]
    /\ leak = [w \in Workers |-> FALSE]
    /\ wasBlocked = [w \in Workers |-> FALSE]
    /\ owed = FALSE
    /\ killflag = [w \in Workers |-> FALSE]
    /\ StoreIdle
    /\ pullreq = None

\* em_main, lines 127-133: the queue and the started threads
Init ==
    /\ queue = <<>>
    /\ qwait = <<>>
    /\ pushed = <<>>
    /\ popped = <<>>
    /\ nthreads \in 1..MaxThreads
    /\ pc = [w \in Workers |-> IF w <= nthreads THEN "start" ELSE "unstarted"]
    /\ cur = [w \in Workers |-> None]
    /\ waitarg = [w \in Workers |-> TRUE]
    /\ opc = "push"
    /\ InitRest
    /\ DataIdle
    /\ Booted(nthreads)

\* the steps of run other than the Popen call
WorkerSteps(w) ==
    \/ WSetWaiting(w)
    \/ WPop(w)
    \/ WClearWaiting(w)
    \/ WPollFetch(w)
    \/ WPollRead(w)
    \/ WPollLock(w)
    \/ WPollLoad(w)
    \/ WCommReturn(w)
    \/ WCommTimeout(w)
    \/ WFireReap(w)
    \/ WFireReapWait(w)
    \/ WReap(w)
    \/ WReapWait(w)

\* one step of the thread's run method
Worker(w) == WorkerSteps(w) \/ WSpawn(w)

Main == OPush \/ ODrain \/ OBarrier \/ OCleanup \/ OWrite \/ OPersist \/ OSleep

Next == Main \/ \E w \in Workers : Worker(w)

Spec == Init /\ [][Next]_vars

\* ------------------------------------- the workers of overlapping cycles
\* the first n pushes of em_main: the events in order, cycle after cycle
PushedBy(n) == [i \in 1..n |-> ((i - 1) % NumEvents) + 1]

\* A state em_main reaches with monitor_threads = n in its cycle n: in each
\* earlier cycle c, worker c dequeued event 1 and has not yet run line 102
\* (its flag still reads True, so the barrier of every cycle let the main
\* thread pass); worker n polled the other events of those cycles, which
\* returned None; the main thread has just pushed event 1 of the current
\* cycle and woken worker n.
InitOverlapOf(n) ==
    /\ queue = <<1>>
    /\ qwait = <<>>
    /\ pushed = PushedBy(NumEvents * (n - 1) + 1)
    /\ popped = PushedBy(NumEvents * (n - 1))
    /\ nthreads = n
    /\ pc = [w \in Workers |-> IF w < n THEN "clear"
                               ELSE IF w = n THEN "pop" ELSE "unstarted"]
    /\ cur = [w \in Workers |-> IF w < n THEN 1 ELSE None]
    /\ waitarg = [w \in Workers |-> TRUE]
    /\ opc = IF NumEvents > 1 THEN "push" ELSE "drain"
    /\ oi = IF NumEvents > 1 THEN 2 ELSE 1
    /\ owait = FALSE
    /\ owoken = FALSE
    /\ cycle = n
    /\ flag = [w \in Workers |-> w <= n]
    /\ res = [w \in Workers |-> 0]
    /\ fi = [w \in Workers |-> 1]
    /\ fj = [w \in Workers |-> 1]
    /\ handle = [e \in Events |-> [j \in JobsOf(e) |-> NoProcess]]
    /\ wt = [w \in Workers |-> NoProcess]
    /\ proc = [w \in Workers |-> "none"]
    /\ store = [k \in Repos |-> n - 1]
    /\ slock = [k \in Repos |-> 0]
    /\ lastpoll = n - 1
    /\ backup = [w \in Workers |-> Absent]
    /\ wcyc = [w \in Workers |-> IF w < n THEN w ELSE 0]
    /\ npoll = [e \in Events |-> IF e = 1 THEN 0 ELSE n - 1]
    /\ unreaped = [e \in Events |-> [j \in JobsOf(e) |-> FALSE]]
    /\ fired = [w \in Workers |-> <<>>]
    /\ leak = [w \in Workers |-> FALSE]
    /\ wasBlocked = [w \in Workers |-> FALSE]
    /\ owed = FALSE
    /\ killflag = [w \in Workers |-> FALSE]
    /\ StoreIdle
    /\ pullreq = None
    /\ DataIdle
    /\ Booted(n)

\* three workers hold event 1 at once
InitOverlap == InitOverlapOf(NumWorkers)

\* the worker threads run while the main thread is not scheduled
NextWorkers == \E w \in Workers : Worker(w)

SpecOverlap == InitOverlap /\ [][NextWorkers]_vars

\* the workers and a thread that throws kill switches
NextStop == NextWorkers \/ \E w \in Workers : KillThread(w)

SpecStop == InitOverlapOf(MaxThreads) /\ [][NextStop]_vars

\* the workers when remote lookups can fail
NextFail == NextWorkers \/ \E w \in Workers : WPollFail(w)

SpecFail == InitOverlapOf(MaxThreads) /\ [][NextFail]_vars

\* ------------------------------------------ the polls cycle after cycle
\* One worker and no overlap: in every cycle each event is polled, then each
\* event is cleaned up.  The event types are any; the repository starts
\* empty and changes at any time.
InitPoll ==
    /\ queue = <<>>
    /\ qwait = <<>>
    /\ pushed = <<>>
    /\ popped = <<>>
    /\ nthreads = 1
    /\ pc = [w \in Workers |-> "unstarted"]
    /\ cur = [w \in Workers |-> None]
    /\ waitarg = [w \in Workers |-> TRUE]
    /\ opc = "none"
    /\ InitRest
    /\ kind \in [Events -> Kinds]
    /\ inc \in BOOLEAN
    /\ live = [key \in Keys |-> EmptyMap]
    /\ dpc = "poll"
    /\ DataInit
    /\ Booted(1)

NextPoll ==
    \/ EventPoll
    \/ EventPollFail
    \/ EventCleanup
    \/ CyclePersist
    \/ CycleSleep
    \/ RepoChange

SpecPoll == InitPoll /\ [][NextPoll]_vars

\* ------------------------------------- em_init and the prologue of em_main
\* the data of the events other than last_poll and the phase
dsame == <<kind, inc, live, fetched, baks, snap, out, di, dcyc, born, lastcall>>

\* em_init, line 78: len(evs) == 0
NoEvents(n) == n = 0

\* Event.__init__, line 114: jobs_len == 0
NoJobs(n) == n = 0

\* em_main, line 107: poll_rate <= 0
BadPollRate(r) == r <= 0

\* em_main, line 122: ethreads_len <= 0
BadThreadsNegative(n) == n < 0
BadThreads(n) == n <= 0

\* em_init, lines 76-79: panic when no event is configured.  panic calls
\* sys.exit(1) in the main thread; no other thread exists yet.
EmInit ==
    /\ spc = "em_init"
    /\ IF NoEvents(conf.monitor_events)
       THEN spc' = "exit" /\ UNCHANGED si
       ELSE spc' = "create" /\ si' = 1
    /\ UNCHANGED <<conf, ctime, tvars, engine, dvars>>

\* em_init, lines 85-86 -> em_create_event -> Event.__init__: panic when
\* the entry has no jobs, else build the jobs and set last_poll to the
\* current time
EmCreateEvent ==
    /\ spc = "create"
    /\ IF NoJobs(conf.jobs[si])
       THEN /\ spc' = "exit"
            /\ UNCHANGED <<si, ctime, lpt, now>>
       ELSE /\ now' = now + 1
            /\ lpt' = [lpt EXCEPT ![si] = now + 1]
            /\ ctime' = [ctime EXCEPT ![si] = now + 1]
            /\ IF si < conf.monitor_events
               THEN si' = si + 1 /\ UNCHANGED spc
               ELSE si' = 1 /\ spc' = "rate"
    /\ UNCHANGED <<conf, tvars, engine, dsame, dpc>>

\* em_main, lines 106-109: the poll rate must be greater than zero
EmPollRate ==
    /\ spc = "rate"
    /\ spc' = IF BadPollRate(conf.monitor_poll_rate) THEN "exit" ELSE "lastpoll"
    /\ UNCHANGED <<si, conf, ctime, tvars, engine, dvars>>

\* em_main, lines 113-115: the last_poll of the events after the read of
\* "em_last_poll" returned last_poll
PropagatedNever(last_poll, old) == old
Propagated(last_poll, old) ==
    IF last_poll # Absent THEN [e \in Events |-> last_poll] ELSE old

\* em_main, lines 112-115: read "em_last_poll"; when there is a record,
\* every event's last_poll becomes the recorded time
EmLastPoll ==
    /\ spc = "lastpoll"
    /\ lpt' = Propagated(lastpoll, lpt)
    /\ spc' = "threads"
    /\ UNCHANGED <<si, conf, ctime, tvars, engine, dsame, now, dpc>>

\* em_main, lines 121-133: the thread count must be greater than zero; the
\* queue is created and the threads are started, and the loop is entered
EmThreads ==
    /\ spc = "threads"
    /\ IF BadThreads(conf.monitor_threads)
       THEN /\ spc' = "exit"
            /\ UNCHANGED <<pc, nthreads, opc, dpc>>
       ELSE /\ spc' = "run"
            /\ nthreads' = conf.monitor_threads
            /\ pc' = [w \in Workers |->
                         IF w <= conf.monitor_threads THEN "start" ELSE "unstarted"]
            /\ opc' = "push"
            /\ dpc' = "poll"
    /\ UNCHANGED <<si, conf, ctime, tvars, qvars, lvars, waitarg, wasBlocked,
                   owed, fvars, oi, cycle, pvars, svars, npoll, dsame, lpt, now>>

\* the configurations: no event or the modelled ones, each with its jobs
\* or with none, any poll rate, any thread count
Confs ==
    [monitor_events : {0, NumEvents},
     jobs : {f \in [Events -> 0..NumJobs] :
                 \A e \in Events : f[e] \in {0, NumJobsOf(e)}},
     monitor_poll_rate : {-1, 0, 1},
     monitor_threads : -1..MaxThreads]

\* the program before em_init, on a machine whose store is empty
InitBoot ==
    /\ queue = <<>>
    /\ qwait = <<>>
    /\ pushed = <<>>
    /\ popped = <<>>
    /\ nthreads = 0
    /\ pc = [w \in Workers |-> "unstarted"]
    /\ cur = [w \in Workers |-> None]
    /\ waitarg = [w \in Workers |-> TRUE]
    /\ opc = "none"
    /\ InitRest
    /\ DataIdle
    /\ spc = "em_init"
    /\ si = 1
    /\ conf \in Confs
    /\ ctime = [e \in Events |-> 0]

Boot == EmInit \/ EmCreateEvent \/ EmPollRate \/ EmLastPoll \/ EmThreads

NextBoot == Boot \/ Next

SpecBoot == InitBoot /\ [][NextBoot]_vars

\* ------------------------------------------- the daemon across restarts
\* a pull request is created in the repository, with the current time as
\* its creation_date
PrCreated ==
    /\ spc = "run"
    /\ \E x \in Ents :
           /\ live["pullreqs"][x] = "none"
           /\ live' = [live EXCEPT !["pullreqs"][x] = "ready"]
           /\ born' = [born EXCEPT ![x] = now + 1]
    /\ now' = now + 1
    /\ UNCHANGED <<kind, inc, fetched, baks, snap, out, lpt, dpc, di, dcyc,
                   lastcall, engine, xvars>>

\* the daemon is stopped during the sleep that ends a cycle and started
\* again: the event objects are gone, the files of the store remain
Restart ==
    /\ dpc = "sleep"
    /\ dcyc < MaxCycles
    /\ dcyc' = dcyc + 1
    /\ dpc' = "off"
    /\ spc' = "em_init"
    /\ si' = 1
    /\ di' = 1
    /\ fetched' = [e \in Events |-> EmptyMap]
    /\ baks' = [e \in Events |-> NoRecord]
    /\ out' = [e \in Events |-> <<>>]
    /\ lpt' = [e \in Events |-> 0]
    /\ UNCHANGED <<kind, inc, live, snap, now, born, lastcall, conf, ctime,
                   tvars, engine>>

\* the program before em_init with a valid configuration and an empty
\* store
InitRestart ==
    /\ queue = <<>>
    /\ qwait = <<>>
    /\ pushed = <<>>
    /\ popped = <<>>
    /\ nthreads = 0
    /\ pc = [w \in Workers |-> "unstarted"]
    /\ cur = [w \in Workers |-> None]
    /\ waitarg = [w \in Workers |-> TRUE]
    /\ opc = "none"
    /\ InitRest
    /\ DataIdle
    /\ spc = "em_init"
    /\ si = 1
    /\ conf = GoodConf(1)
    /\ ctime = [e \in Events |-> 0]

NextRestart ==
    \/ Boot
    \/ EventPoll
    \/ EventCleanup
    \/ CyclePersist
    \/ CycleSleep
    \/ PrCreated
    \/ Restart

SpecRestart == InitRestart /\ [][NextRestart]_vars

\* ------------------------------------ the two halves of Event.poll
\* Event.poll, line 164: poll_action of event di fetches the entities,
\* reads the backup and compares; last_poll is still that of the poll before
EventPollAction ==
    /\ dpc = "poll"
    /\ LET key == SnapKey(kind[di]) IN
       /\ fetched' = [fetched EXCEPT ![di] = live[key]]
       /\ baks' = [baks EXCEPT ![di] = snap[key]]
       /\ out' = [out EXCEPT ![di] =
                     IF kind[di] = "pr_create"
                     THEN CreatePollAction(live[key], born, lpt[di])
                     ELSE PollAction(kind[di], live[key], snap[key], inc)]
    /\ dpc' = "stamp"
    /\ UNCHANGED <<kind, inc, live, snap, lpt, now, di, dcyc, born, lastcall,
                   engine, xvars>>

\* Event.poll, lines 167-168: set_last_poll_time(datetime.now()) and return
EventPollStamp ==
    /\ dpc = "stamp"
    /\ now' = now + 1
    /\ lpt' = [lpt EXCEPT ![di] = now + 1]
    /\ lastcall' = [lastcall EXCEPT ![di] = now + 1]
    /\ IF di < NumEvents
       THEN di' = di + 1 /\ dpc' = "poll"
       ELSE di' = 1 /\ dpc' = "cleanup"
    /\ UNCHANGED <<kind, inc, live, fetched, baks, snap, out, dcyc, born,
                   engine, xvars>>

\* the daemon from its start, running without a stop, while pull requests
\* are created at any time
NextCreate ==
    \/ Boot
    \/ EventPollAction
    \/ EventPollStamp
    \/ EventCleanup
    \/ CyclePersist
    \/ CycleSleep
    \/ PrCreated

SpecCreate == InitRestart /\ [][NextCreate]_vars

\* ----------------------------------- poll_action on any pair of snapshots
Revs == 1..NumRevs
RevSeq == [i \in 1..NumRevs |-> i]

\* the status of a pull request; "none" where the list has no such request
Statuses == {"none", "active", "completed"}

\* the vote of a reviewer, and the value standing for a user that is not
\* among the reviewers of the pull request
Votes == {0, 10}
NotReviewer == -1

\* the reviewers of a pull request, of a request the list does not have,
\* and None in the place of the stored dict
PrReviewers == [Revs -> Votes \cup {NotReviewer}]
NoPr == [r \in Revs |-> -2]
NoRevRecord == [x \in Ents |-> [r \in Revs |-> -3]]

\* filtered_prs: every pull request, or the one the config names
InFilter(p, pr_id) == pr_id = None \/ p = pr_id

\* Event_PR_Status_Change.poll_action, lines 366-379: the pull requests
\* for which the loop comes to an append
StatusDiffers(prs, backups, pr_id) ==
    LET Hit(p) == /\ InFilter(p, pr_id)
                  /\ prs[p] # "none"
                  /\ backups[p] # "none"
                  /\ prs[p] # backups[p]
    IN  SelectSeq(EntSeq, Hit)

\* lines 386 and 390 append to `result`, a name that is not defined: both
\* raise NameError, which leaves poll_action
StatusChangeRaises(prs, backups, pr_id) ==
    backups # NoRecord /\ StatusDiffers(prs, backups, pr_id) # <<>>

\* what poll_action returns when it returns: `results` is never appended
\* to, so None
StatusChangePollAction(prs, backups, pr_id) == <<>>

\* Event_PR_Reviewer_Added.check_reviewers with the default config: the
\* reviewers that are not in the old dict
CheckReviewersAdded(revs_new, revs_old) ==
    LET Hit(r) == revs_new[r] # NotReviewer /\ revs_old[r] = NotReviewer
    IN  SelectSeq(RevSeq, Hit)

\* Event_PR_Reviewer_Voted.check_reviewers with the default config: the
\* reviewers of both dicts whose vote differs
CheckReviewersVoted(revs_new, revs_old) ==
    LET Hit(r) == /\ revs_new[r] # NotReviewer
                  /\ revs_old[r] # NotReviewer
                  /\ revs_new[r] # revs_old[r]
    IN  SelectSeq(RevSeq, Hit)

\* Event_PR_Reviewer_Added.poll_action, inherited by Reviewer_Voted: for
\* each pull request for which check_reviewers returns reviewers, one
\* element: the pull request with the reviewers under "culprits"
ReviewerPollAction(k, prs, backups, pr_id) ==
    IF backups = NoRevRecord THEN <<>>
    ELSE LET Culprits(p) ==
                 IF k = "pr_reviewer_voted"
                 THEN CheckReviewersVoted(prs[p], backups[p])
                 ELSE CheckReviewersAdded(prs[p], backups[p])
             Hit(p) == /\ InFilter(p, pr_id)
                       /\ prs[p] # NoPr
                       /\ backups[p] # NoPr
                       /\ Culprits(p) # <<>>
             hits == SelectSeq(EntSeq, Hit)
         IN  [i \in 1..Len(hits) |->
                 [pr |-> hits[i], culprits |-> Culprits(hits[i])]]

\* what a compare step leaves alone
csame == <<inc, live, snap, lpt, now, di, dcyc, born, lastcall, engine,
           killflag, kvars, bvars>>

\* poll_action of a pr_status_change event on any fetched list, any stored
\* record and any "pullreq" of the config
ComparePollStatus ==
    /\ dpc = "compare"
    /\ \E prs \in [Ents -> Statuses],
          backups \in [Ents -> Statuses] \cup {NoRecord},
          pr_id \in {None} \cup Ents :
           /\ kind' = [kind EXCEPT ![1] = "pr_status_change"]
           /\ fetched' = [fetched EXCEPT ![1] = prs]
           /\ baks' = [baks EXCEPT ![1] = backups]
           /\ pullreq' = pr_id
           /\ IF StatusChangeRaises(prs, backups, pr_id)
              THEN dpc' = "raised" /\ UNCHANGED out
              ELSE /\ dpc' = "returned"
                   /\ out' = [out EXCEPT ![1] =
                                 StatusChangePollAction(prs, backups, pr_id)]
    /\ UNCHANGED csame

\* poll_action of a pr_reviewer_added or pr_reviewer_voted event
ComparePollReviewers ==
    /\ dpc = "compare"
    /\ \E k \in {"pr_reviewer_added", "pr_reviewer_voted"},
          prs \in [Ents -> PrReviewers \cup {NoPr}],
          backups \in [Ents -> PrReviewers \cup {NoPr}] \cup {NoRevRecord},
          pr_id \in {None} \cup Ents :
           /\ kind' = [kind EXCEPT ![1] = k]
           /\ fetched' = [fetched EXCEPT ![1] = prs]
           /\ baks' = [baks EXCEPT ![1] = backups]
           /\ pullreq' = pr_id
           /\ dpc' = "returned"
           /\ out' = [out EXCEPT ![1] = ReviewerPollAction(k, prs, backups, pr_id)]
    /\ UNCHANGED csame

\* an event about to be polled
InitCompare ==
    /\ queue = <<>>
    /\ qwait = <<>>
    /\ pushed = <<>>
    /\ popped = <<>>
    /\ nthreads = 1
    /\ pc = [w \in Workers |-> "unstarted"]
    /\ cur = [w \in Workers |-> None]
    /\ waitarg = [w \in Workers |-> TRUE]
    /\ opc = "none"
    /\ InitRest
    /\ kind = [e \in Events |-> EventKind(e)]
    /\ inc = FALSE
    /\ live = [key \in Keys |-> EmptyMap]
    /\ dpc = "compare"
    /\ DataInit
    /\ Booted(1)

NextCompare == ComparePollStatus \/ ComparePollReviewers

SpecCompare == InitCompare /\ [][NextCompare]_vars

\* ------------------------------------------- the clients of the store
\* n threads call the store, each one call after the other
InitStoreOf(n) ==
    /\ queue = <<>>
    /\ qwait = <<>>
    /\ pushed = <<>>
    /\ popped = <<>>
    /\ nthreads = n
    /\ pc = [w \in Workers |-> "unstarted"]
    /\ cur = [w \in Workers |-> None]
    /\ waitarg = [w \in Workers |-> TRUE]
    /\ opc = "none"
    /\ InitRest
    /\ DataIdle
    /\ Booted(n)

StorageStep(t) ==
    /\ \/ \E key \in SKeys, obj \in Records : StorageCall(t, "write", key, obj)
       \/ \E key \in SKeys : StorageCall(t, "read", key, <<>>)
       \/ StorageIsFile(t)
       \/ StorageLockCheck(t)
       \/ StorageLockNew(t)
       \/ StorageLockGet(t)
       \/ StorageAcquire(t)
       \/ StorageOpen(t)
       \/ StorageDump(t)
       \/ StorageLoad(t)
       \/ StorageRelease(t)
    /\ UNCHANGED <<killflag, engine, dvars, bvars, evars>>

NextStore == \E t \in Workers : StorageStep(t)

\* threads that call the store concurrently
SpecStore == InitStoreOf(MaxThreads) /\ [][NextStore]_vars

\* one thread: no two calls overlap
SpecStoreSeq == InitStoreOf(1) /\ [][NextStore]_vars

\* ------------------------------- the cycles when every spawn succeeds
\* the engine with jobs whose programs can be started: every process ends
\* by itself or is killed on a timeout, and every poll_action returns
NextProgress == Main \/ \E w \in Workers : WorkerSteps(w) \/ WSpawnOk(w)

SpecProgress == Init /\ [][NextProgress]_vars

\* --------------------------------------- the cycle up to the barrier
\* the main thread enqueues the rest of the events, waits for the queue to
\* drain and waits on the flag of every thread, while the workers run
NextBarrier == OPush \/ ODrain \/ OBarrier \/ NextWorkers

\* a main thread that can go on in wait_is_waiting_on_queue does go on:
\* the interpreter schedules every runnable thread
FairSpecBarrier ==
    InitOverlapOf(MaxThreads) /\ [][NextBarrier]_vars /\ WF_vars(OBarrier)

\* ------------------------------------------- the queue with free clients
InitQ ==
    /\ queue = <<>>
    /\ qwait = <<>>
    /\ pc = [w \in Workers |-> IF w <= MaxThreads THEN "idle" ELSE "unstarted"]
    /\ cur = [w \in Workers |-> None]
    /\ waitarg = [w \in Workers |-> TRUE]
    /\ pushed = <<>>
    /\ popped = <<>>
    /\ InitRest
    /\ DataIdle
    /\ nthreads = MaxThreads
    /\ opc = "none"
    /\ Booted(MaxThreads)

QCallPop(w, wait) ==
    /\ pc[w] = "idle"
    /\ pc' = [pc EXCEPT ![w] = "pop"]
    /\ waitarg' = [waitarg EXCEPT ![w] = wait]
    /\ cur' = [cur EXCEPT ![w] = None]
    /\ UNCHANGED <<qvars, mvars, wasBlocked, owed>>

QPop(w) ==
    /\ Pop(w, waitarg[w], "idle")
    /\ wasBlocked' = [wasBlocked EXCEPT ![w] =
                         IF InSeq(w, qwait') THEN TRUE
                         ELSE IF pc'[w] = "idle" THEN FALSE ELSE @]
    /\ owed' = IF pc'[w] = "idle" /\ cur'[w] # None /\ wasBlocked[w]
               THEN FALSE ELSE owed
    /\ UNCHANGED <<waitarg, mvars>>

QPush(e) ==
    /\ Len(pushed) < MaxPush
    /\ Push(e)
    /\ owed' = (owed \/ qwait # <<>>)
    /\ UNCHANGED <<pc, cur, waitarg, wasBlocked, mvars>>

NextQ ==
    \/ \E w \in Workers, wait \in BOOLEAN : QCallPop(w, wait)
    \/ \E w \in Workers : QPop(w)
    \/ \E e \in Events : QPush(e)

SpecQueue == InitQ /\ [][NextQ]_vars

\* a popper that can run does run
FairSpecQueue == SpecQueue /\ \A w \in Workers : WF_vars(QPop(w))

\* -------------------------------------------------------------- properties

\* C7: Queue FIFO - the elements leave the queue in the order they were
\* pushed, whichever threads pop: the elements popped so far followed by
\* the elements still queued are exactly the pushes in push order.
C7_QueueFifo == popped \o queue = pushed

C7_Witness ==
    /\ Len(popped) = MaxPush
    /\ popped[1] # popped[2]
    /\ \E w1, w2 \in Workers : w1 # w2 /\ cur[w1] # None /\ cur[w2] # None

\* -------------------------------------------- vocabulary of the properties
\* the worker holds a dequeued event: from the return of pop to the end of
\* the reap loop
Busy(w) ==
    pc[w] \in {"clear", "poll", "read", "lock", "load", "spawn", "comm",
               "freap", "fwait", "reap", "rwait"}

\* the worker is inside the storage read of poll_action
Reading(w) == pc[w] \in {"read", "lock", "load"}

\* the worker is inside Event.poll
Polling(w) == pc[w] \in {"poll", "read", "lock", "load"}

\* the worker is inside the nested fire loop of run
Firing(w) == pc[w] \in {"spawn", "comm", "freap", "fwait"}

\* the main thread is in the cleanup phase of the cycle
InCleanup == opc \in {"cleanup", "write"}

\* the (payload, job) pairs of p payloads and j jobs in the order of the
\* nested loop
AllPairs(p, j) == [n \in 1..(p * j) |-> <<((n - 1) \div j) + 1, ((n - 1) % j) + 1>>]

Count(x, s) == Cardinality({i \in 1..Len(s) : s[i] = x})

\* C1: Idleness barrier soundness - whenever the main thread is in the
\* cleanup phase, no worker holds a dequeued event, is inside poll(), or is
\* firing or reaping a job.
C1_BarrierSound == InCleanup => \A w \in Workers : ~Busy(w)

\* C2: the write of a snapshot key is made by one thread at a time and never
\* overlaps a poll_action read of the same key that belongs to the same
\* cycle; writes happen in the cleanup phase while no worker is reading.
C2_WriteNeverOverlapsRead ==
    /\ \A k \in Repos : slock[k] = MainThread => opc = "write" /\ KeyOf(oi) = k
    /\ InCleanup =>
           \A w \in Workers : ~(Reading(w) /\ wcyc[w] = cycle)

\* C3: Write-after-read per cycle - the snapshot a poll of cycle N has read
\* is absent or was written in an earlier cycle, never in cycle N.
C3_ReadsLastCycle ==
    \A w \in Workers : backup[w] # Absent => backup[w] < wcyc[w]

\* C4: At-most-one concurrent job handle - fire() spawns for a job only when
\* the job has been reaped since its previous fire().
C4_FireOnlyAfterReap ==
    [][\A w \in Workers :
          Len(fired'[w]) > Len(fired[w]) => ~unreaped[cur[w]][fj[w]]]_vars

\* C5: every process spawned for an event has been waited for (until it
\* exited or was killed) before the worker goes back to the queue.
C5_AllReapedBeforeNextPop ==
    \A w \in Workers : pc[w] \in {"start", "pop"} => ~leak[w]

\* C6: a poll that yields P payloads on an event with J jobs spawns exactly
\* P*J processes, one per (payload, job) pair in loop order and none twice;
\* the worker leaves the fire loop only with all of them spawned.
C6_ExactlyPJSpawns ==
    [][\A w \in Workers :
          /\ Firing(w) =>
                 \E n \in 0..Len(AllPairs(res[w], NumJobsOf(cur[w]))) :
                     fired[w] = SubSeq(AllPairs(res[w], NumJobsOf(cur[w])), 1, n)
          /\ (Firing(w) /\ ~Firing(w)') =>
                 fired[w] = AllPairs(res[w], NumJobsOf(cur[w]))]_vars

\* C10: in each cycle every event is enqueued exactly once and polled
\* exactly once, and at most nthreads polls are in progress at any time: an
\* event has been pushed once per cycle started, polled no more often than
\* pushed, and polled once per cycle when the cycle's record is written.
C10_OncePerCycle ==
    /\ \A e \in Events :
           /\ Count(e, pushed) \in {cycle - 1, cycle}
           /\ npoll[e] <= Count(e, pushed)
           /\ opc \in {"persist", "sleep"} => npoll[e] = cycle
    /\ Cardinality({w \in Workers : Polling(w)}) <= nthreads

\* the thread is inside a pop call
InPop(w) == pc[w] = "pop"

\* the client of the queue can still push
CanPush == Len(pushed) < MaxPush

\* C8 as stated: after a push that found workers blocked in pop(wait=True),
\* some worker that was blocked eventually returns from pop with an element
\* (in runs in which the client never runs out of pushes).
C8_BlockedWorkerReturns == (owed /\ CanPush) ~> (~owed \/ ~CanPush)

\* C8: Blocking pop wakes on push - an element never stays queued forever
\* while a thread is inside pop, so the element pushed to blocked waiters is
\* eventually removed by a pop; a waiter is never left blocked with more
\* elements queued than there are running poppers to take them (no lost
\* wake-up); and a blocked waiter takes no step until a push notifies it.
C8_PushWakesPop ==
    /\ []<>(queue = <<>> \/ \A w \in Workers : ~InPop(w))
    /\ [](qwait # <<>> =>
             Len(queue) <=
             Cardinality({w \in Workers : InPop(w) /\ ~InSeq(w, qwait)}))
    /\ [][\A w \in Workers :
             InSeq(w, qwait) =>
                 /\ pc'[w] = pc[w] /\ cur'[w] = cur[w]
                 /\ (InSeq(w, qwait') \/ pushed' # pushed)]_vars

\* a waiter was woken by a push, another thread took the element, and the
\* waiter is blocked again on the empty queue
C8_Witness ==
    /\ owed
    /\ pushed # <<>> /\ popped = pushed
    /\ \E w1, w2 \in Workers :
           /\ InSeq(w1, qwait) /\ wasBlocked[w1]
           /\ pc[w2] = "idle" /\ cur[w2] # None

\* C9: pop(wait=False) on an empty queue returns None at once, without
\* blocking and with the queue unchanged; pop(wait=True) returns only with
\* the element it removed from the head, never None.
C9_PopReturn ==
    [][\A w \in Workers :
          /\ ~waitarg'[w] => ~InSeq(w, qwait')
          /\ (InPop(w) /\ ~waitarg[w] /\ queue = <<>> /\ pc'[w] # pc[w]) =>
                 pc'[w] = "idle" /\ cur'[w] = None /\ queue' = queue
                 /\ qwait' = qwait
          /\ (InPop(w) /\ waitarg[w] /\ pc'[w] = "idle") =>
                 /\ queue # <<>>
                 /\ cur'[w] = Head(queue) /\ cur'[w] # None
                 /\ queue' = Tail(queue)]_vars

\* one thread got None from a non-waiting pop on the empty queue, another
\* got an element from a waiting pop that had blocked
C9_Witness ==
    \E w1, w2 \in Workers :
        /\ pc[w1] = "idle" /\ ~waitarg[w1] /\ cur[w1] = None
        /\ pc[w2] = "idle" /\ waitarg[w2] /\ cur[w2] # None
        /\ Len(popped) = 1 /\ queue = <<>>

\* the worker is inside the reap loop of run
Reaping(w) == pc[w] \in {"reap", "rwait"}

\* the worker is blocked in Popen.wait inside reap
InWait(w) == pc[w] \in {"fwait", "rwait"}

\* C11: Timeout kill - when the wait of reap() ends (by exit of the process
\* or by the timeout) and reap() returns, the process it waited for is no
\* longer running.
C11_TimeoutKills ==
    [][\A w \in Workers :
          (InWait(w) /\ pc'[w] # pc[w] /\ pc'[w] # "dead" /\ wt[w] \in Workers)
              => proc'[wt[w]] # "running"]_vars

\* C12: a timeout of communicate (inside fire) or of wait (inside reap) never
\* ends the worker thread: no step taken from a blocked communicate or wait
\* leaves run by an exception.
C12_TimeoutNeverRaises ==
    [][\A w \in Workers :
          (pc[w] = "comm" \/ InWait(w)) => pc'[w] # "dead"]_vars

\* C13: a failing spawn does not end the worker thread: the step taken at
\* the Popen call of fire never leaves run.
C13_SpawnFailureSurvived ==
    [][\A w \in Workers : pc[w] = "spawn" => pc'[w] # "dead"]_vars

\* C14: Cooperative stop - once kill() has been called on a worker, its pop
\* calls do not block: the worker is never put on the queue's condition
\* while its kill flag is set (it gets None from the empty queue and ends).
C14_KilledNeverBlocks ==
    [][\A w \in Workers :
          (killflag[w] /\ ~InSeq(w, qwait)) => ~InSeq(w, qwait')]_vars

\* C15: after every call of poll() on an event, whether poll_action returned
\* payloads, returned None or failed, last_poll of the event is the time of
\* that call.
C15_LastPollUpdated ==
    [][\A e \in Events :
          (dpc = "poll" /\ di = e /\ now' # now) => lpt'[e] = now']_vars

\* C16: No baseline, no event - a change-detecting poll_action that read no
\* record under its key returns no payloads, whatever the entities are.
C16_NoBaselineNoEvent ==
    \A e \in Events : baks[e] = NoRecord => out[e] = <<>>

\* a draft-on event with include_new_pullreqs and a branch event have both
\* polled without a baseline while a draft pull request and a branch existed
C16_Witness ==
    \E e1, e2 \in Events :
        /\ kind[e1] = "pr_draft_on" /\ kind[e2] = "branch_commit_new"
        /\ lpt[e1] > 0 /\ lpt[e2] > 0
        /\ baks[e1] = NoRecord /\ baks[e2] = NoRecord
        /\ inc
        /\ \E p \in Ents : fetched[e1][p] = "draft"
        /\ \E b \in Ents : fetched[e2][b] # "none"
        /\ out[e1] = <<>> /\ out[e2] = <<>>

\* C17: Draft-flag detection across two cycles - with include_new_pullreqs
\* false and a store that starts empty, the poll of a draft-on event yields
\* no payload in cycle 1, and in cycle 2 one payload for every pull request
\* whose flag was false at the event's poll of cycle 1 and is true now:
\* exactly one payload when there is one such pull request.
C17_DraftOnTwoCycles ==
    [][\A e \in Events :
          (kind[e] = "pr_draft_on" /\ ~inc /\ dpc = "poll" /\ di = e
             /\ lpt'[e] # lpt[e]) =>
              /\ dcyc = 1 => out'[e] = <<>>
              /\ dcyc = 2 =>
                   LET flipped == {p \in Ents : /\ fetched[e][p] = "ready"
                                                /\ fetched'[e][p] = "draft"}
                   IN  /\ \A p \in flipped : Count(p, out'[e]) = 1
                       /\ Cardinality(flipped) = 1 => Len(out'[e]) = 1]_vars

\* a remote lookup has failed in some worker's poll
Panicked == \E w \in Workers : pc[w] = "exited"

\* C20: a remote-lookup failure during a poll ends the whole daemon: once a
\* lookup has failed, no thread calls poll, spawns a job, or writes a
\* snapshot or the last-poll record.
C20_FailureStopsDaemon ==
    [][Panicked =>
          /\ npoll' = npoll
          /\ \A w \in Workers : Len(fired'[w]) <= Len(fired[w])
          /\ store' = store
          /\ lastpoll' = lastpoll]_vars

\* C18: cleanup_action runs on an event only after the poll of that event
\* has been called in the cycle and has returned.
C18_CleanupAfterPoll ==
    opc = "write" =>
        /\ npoll[oi] = cycle
        /\ \A w \in Workers :
               ~(cur[w] = oi /\ wcyc[w] = cycle /\ (pc[w] = "clear" \/ Polling(w)))

\* C19: No cycle overlap - while the main thread enqueues the events of a
\* cycle, no worker is polling, firing or reaping for an event it dequeued
\* in an earlier cycle.
C19_NoCycleOverlap ==
    opc = "push" =>
        \A w \in Workers :
            (Polling(w) \/ Firing(w) \/ Reaping(w)) => wcyc[w] = cycle

\* the configuration has one of the errors checked at startup
ConfigError ==
    \/ conf.monitor_poll_rate <= 0
    \/ conf.monitor_threads <= 0
    \/ conf.monitor_events = 0
    \/ \E e \in 1..conf.monitor_events : conf.jobs[e] = 0

\* C21: Configuration errors are fatal before the poll loop - with a poll
\* rate <= 0, a thread count <= 0, no event or an event without jobs, the
\* main thread never enters the loop and no thread is started: no event is
\* ever enqueued, polled or cleaned up; and once the prologue has no step
\* left the daemon has exited.
C21_ConfigErrorFatal ==
    ConfigError =>
        /\ spc # "run" /\ opc = "none"
        /\ \A w \in Workers : pc[w] = "unstarted"
        /\ pushed = <<>>
        /\ \A e \in Events : npoll[e] = 0
        /\ \A k \in Repos : store[k] = Absent
        /\ lastpoll = Absent
        /\ ~(ENABLED Boot) => spc = "exit"

\* the last of the checks has ended the daemon: the events were built and
\* the poll rate was accepted, the thread count is zero
C21_Witness ==
    /\ spc = "exit"
    /\ conf.monitor_threads = 0
    /\ conf.monitor_poll_rate > 0
    /\ \A e \in Events : ctime[e] > 0

\* the thread has the file of its key open
InFile(t) == scall[t].pos \in {"dump", "load"}

\* C22: Per-key serialisation - two storage calls made with lock=True by
\* different threads on the same key never have the file open at the same
\* time, the first calls ever made on the key included; and no more than
\* one lock object is ever made for a key.
C22_PerKeySerialised ==
    /\ \A t1, t2 \in Workers :
           (t1 # t2 /\ InFile(t1) /\ InFile(t2)) => scall[t1].key # scall[t2].key
    /\ \A k \in SKeys : Len(lockobjs[k]) <= 1

\* C23: Snapshot Store round trip - a read of a key returns None when the
\* key was never written and otherwise the object of the last write of that
\* key, whatever was written under other keys in between.
C23_RoundTrip ==
    [][\A t \in Workers :
          (scall[t].fn = "read" /\ scall[t].pos # "idle" /\ scall'[t].pos = "idle")
              => scall'[t].ret = wrote[scall[t].key]]_vars

\* a read has returned the object written under its key after another key
\* was written with a different object, and another read returned None
C23_Witness ==
    \E k1, k2 \in SKeys :
        /\ k1 # k2
        /\ wrote[k1] # NoObj /\ wrote[k2] # NoObj /\ wrote[k1] # wrote[k2]
        /\ scall[1].fn = "read" /\ scall[1].pos = "idle" /\ scall[1].key = k1
        /\ scall[1].ret = wrote[k1]

\* the worker is inside fire after the Popen call
InFire(w) == pc[w] \in {"comm", "freap", "fwait"}

\* C24: fire(payload, wait=False) returns without waiting for the spawned
\* process to end: whenever fire returns to run, the handle it hands back
\* is the Popen object of a process that is still running.
C24_FireReturnsLive ==
    [][\A w \in Workers :
          (InFire(w) /\ ~InFire(w)' /\ pc'[w] # "dead") =>
              /\ handle'[cur[w]][fj[w]] \in Workers
              /\ proc'[handle'[cur[w]][fj[w]]] = "running"]_vars

\* a step in which reap returns to its caller, fire or the reap loop of run
ReapReturns(w) ==
    \/ pc[w] \in {"freap", "fwait"} /\ pc'[w] \notin {"freap", "fwait", "dead"}
    \/ Reaping(w) /\ pc'[w] # "dead" /\ (pc'[w] = "start" \/ fj'[w] # fj[w])

\* C25: after reap() returns, whether the process exited by itself or was
\* killed on the timeout, the handle of the job is cleared.
C25_ReapClearsHandle ==
    [][\A w \in Workers :
          ReapReturns(w) => handle'[cur[w]][fj[w]] = NoProcess]_vars

\* the event has not been polled since it was constructed
Unpolled(e) == lastcall[e] < ctime[e]

\* C26: when "em_last_poll" is in the store at startup, the last_poll of
\* every event is the stored time until the event's first poll; when it is
\* not, last_poll is the time of the event's construction.
C26_LastPollPropagated ==
    \A e \in Events :
        (spc = "run" /\ Unpolled(e)) =>
            lpt[e] = IF lastpoll # Absent THEN lastpoll ELSE ctime[e]

\* after a restart the first event has had its first poll and the second
\* is about to, with the stored time as its last_poll
C26_Witness ==
    /\ spc = "run" /\ dpc = "poll" /\ di = NumEvents
    /\ lastpoll # Absent
    /\ ~Unpolled(1)
    /\ Unpolled(NumEvents)
    /\ lpt[NumEvents] = lastpoll /\ lpt[NumEvents] # ctime[NumEvents]

\* C27: Cross-restart equivalence for creation detection - every poll of a
\* pr_create event that was polled before, in this run of the daemon or in
\* an earlier one, reports exactly the pull requests a daemon that never
\* stopped reports: those created since the event's previous poll.
C27_RestartEquivalent ==
    [][\A e \in Events :
          (kind[e] = "pr_create" /\ dpc = "poll" /\ di = e
             /\ lastcall'[e] # lastcall[e] /\ lastcall[e] > 0) =>
              out'[e] = CreatePollAction(live["pullreqs"], born, lastcall[e])]_vars

\* C28: Status-change detection - with a baseline present, poll_action of
\* a status-change event returns, and returns exactly one payload for
\* every filtered pull request that is in the baseline with a different
\* status, and none for any other pull request.
C28_StatusChangeDetected ==
    [][(dpc = "compare" /\ kind'[1] = "pr_status_change" /\ baks'[1] # NoRecord)
          => /\ dpc' = "returned"
             /\ out'[1] = StatusDiffers(fetched'[1], baks'[1], pullreq')]_vars

\* C29: Multi-subject occurrences - every element of the sequence a
\* reviewer event's poll_action returns stands for one changed reviewer,
\* so k changed reviewers of one pull request give k elements.
C29_OneElementPerSubject ==
    [][(dpc = "compare" /\ kind'[1] \in {"pr_reviewer_added", "pr_reviewer_voted"})
          => \A i \in 1..Len(out'[1]) : Len(out'[1][i].culprits) = 1]_vars

\* the worker is polling its event, or firing or reaping the event's jobs
Operating(w) == Polling(w) \/ Firing(w) \/ Reaping(w)

\* C30: Exclusive ownership - with two or more workers, no event (and so no
\* job handle) is being polled, fired or reaped by two workers at once.
C30_ExclusiveOwnership ==
    nthreads >= 2 =>
        \A w1, w2 \in Workers :
            (w1 # w2 /\ Operating(w1) /\ Operating(w2)) => cur[w1] # cur[w2]

\* the phase of the cycle the main thread is in: the write of a snapshot is
\* part of the cleanup of its event
Phase(p) == IF p = "write" THEN "cleanup" ELSE p

\* the order of the phases in the loop of em_main, lines 135-160
PhaseOrder ==
    {<<"push", "drain">>, <<"drain", "barrier">>, <<"barrier", "cleanup">>,
     <<"cleanup", "persist">>, <<"persist", "sleep">>, <<"sleep", "push">>}

\* C31: the phases of the main thread follow one another only in the order
\* enqueue-all, drain-wait, barrier, cleanup, persist, sleep, enqueue-all;
\* cleanup visits the events one after the other from the first to the
\* last; the last-poll record is written only in the persist phase, after
\* the cleanup of the last event and before the sleep; and events are
\* enqueued only in the enqueue phase.
C31_PhaseOrder ==
    [][/\ Phase(opc') # Phase(opc) => <<Phase(opc), Phase(opc')>> \in PhaseOrder
       /\ (opc = "barrier" /\ opc' = "cleanup") => oi' = 1
       /\ (opc = "cleanup" /\ opc' # opc) => opc' = "write" /\ oi' = oi
       /\ (opc = "write" /\ opc' = "cleanup") => oi' = oi + 1
       /\ (opc = "write" /\ opc' = "persist") => oi = NumEvents
       /\ lastpoll' # lastpoll => opc = "persist" /\ opc' = "sleep"
       /\ store' # store => opc = "write"
       /\ pushed' # pushed => opc = "push"]_vars

\* the main thread has gone through every phase of the first cycle, has
\* enqueued the events again and waits for the queue to drain
C31_Witness ==
    /\ cycle = 2 /\ opc = "drain"
    /\ lastpoll = 1
    /\ \A e \in Events : store[KeyOf(e)] = 1
    /\ Len(pushed) = 2 * NumEvents


\* the worker is inside the pop call of line 101, or about to make it
WaitingOnQueue(w) == pc[w] = "pop"

\* C32: Worker status invariant - a worker whose waiting flag is True is
\* waiting on the queue and holds no dequeued event, and the flag is False
\* from the moment an element is removed from the queue for the worker
\* until all the jobs of the event are reaped.
C32_FlagMeansWaiting ==
    \A w \in Workers :
        /\ flag[w] => WaitingOnQueue(w) /\ cur[w] = None
        /\ Busy(w) => ~flag[w]


\* the main thread is in wait_is_waiting_on_queue of thread w
AtBarrierOf(w) == opc = "barrier" /\ oi = w

\* thread w is blocked in condition.wait() of pop: it found the queue empty
BlockedInPop(w) == InSeq(w, qwait)

\* C33: No lost wake-up on the waiting flag - whenever the main thread is
\* in the barrier at a worker whose flag is True and that is blocked in pop
\* on the empty queue (in particular when the main thread was blocked on the
\* flag before the worker set it), the main thread eventually returns from
\* the wait for that worker.
C33_NoLostWakeup ==
    \A w \in Workers :
        (AtBarrierOf(w) /\ flag[w] /\ BlockedInPop(w)) ~> ~AtBarrierOf(w)

\* the main thread was blocked on the flag of a thread; the thread has set
\* the flag, waking it, and is blocked in pop on the empty queue
C33_Witness ==
    \E w \in Workers :
        AtBarrierOf(w) /\ owoken /\ ~owait /\ flag[w] /\ BlockedInPop(w)


\* a step in which the pop call of thread w returns an element
PopReturnsElement(w) == InPop(w) /\ pc'[w] # pc[w] /\ cur'[w] # None

\* C34: Queue integrity under concurrency - whatever the interleaving of
\* the pushes and pops of the threads, no element is returned by more pops
\* than it was pushed, an element a pop returns was in the queue (so it was
\* pushed) and leaves it in that step, and size() is the number of pushes
\* minus the number of pops that returned an element.
C34_QueueIntegrity ==
    /\ [](/\ \A e \in Events : Count(e, popped) + Count(e, queue) = Count(e, pushed)
          /\ Count(None, queue) = 0
          /\ Size = Len(pushed) - Len(popped))
    /\ [][\A w \in Workers :
             PopReturnsElement(w) =>
                 /\ InSeq(cur'[w], queue)
                 /\ Len(queue') = Len(queue) - 1
                 /\ Count(cur'[w], queue') = Count(cur'[w], queue) - 1
                 /\ Len(popped') = Len(popped) + 1
                 /\ pushed' = pushed]_vars

\* two threads have each got an element from pop while a third push is
\* still queued, and one of them is inside pop again
C34_Witness ==
    /\ Len(pushed) = MaxPush /\ Len(popped) = 2 /\ Size = 1
    /\ \E w1, w2 \in Workers :
           /\ w1 # w2
           /\ pc[w1] = "idle" /\ cur[w1] # None
           /\ InPop(w2) /\ ~BlockedInPop(w2)


\* the firing a comes before the firing b in the nested loop of run: an
\* earlier payload, or the same payload and an earlier job
FiredBefore(a, b) == a[1] < b[1] \/ (a[1] = b[1] /\ a[2] < b[2])

\* C35: within the processing of one poll result the firings are made in
\* payload order and, for one payload, in the configured order of the jobs:
\* every firing for payload i comes before every firing for payload i+1.
C35_PayloadOrder ==
    \A w \in Workers :
        \A a, b \in 1..Len(fired[w]) :
            a < b => FiredBefore(fired[w][a], fired[w][b])

\* a worker has fired both jobs of an event for both payloads of one poll
C35_Witness ==
    \E w \in Workers :
        /\ Reaping(w)
        /\ res[w] = MaxPayloads /\ NumJobsOf(cur[w]) = NumJobs
        /\ fired[w] = AllPairs(MaxPayloads, NumJobs)


\* a step in which thread w calls reap on the job in hand: from fire, line
\* 86, or from the loop of run, line 132
CallsReap(w) == pc[w] \in {"freap", "reap"} /\ pc'[w] # pc[w]

\* C36: the precondition of reap is never violated - whenever the worker or
\* fire calls reap() on a job, the job has a process handle, so the
\* assertion of line 39 never fails.
C36_ReapPrecondition ==
    [][\A w \in Workers :
          CallsReap(w) => handle[cur[w]][fj[w]] # NoProcess]_vars


\* the thread has left run: by an exception, by sys.exit or by its break
Ended(w) == pc[w] \in {"dead", "exited", "stopped"}

\* C37: Cycle progress - when every poll_action returns and every spawned
\* process exits or is killed on its timeout, the main thread and the
\* workers never deadlock: the main thread is never left spinning on a
\* queue that no thread will empty, nor waiting on the flag of a thread
\* that will not set it, so every cycle goes on to cleanup, persist and
\* the next cycle.
C37_CycleProgress ==
    /\ ~(opc = "drain" /\ queue # <<>> /\ \A w \in 1..nthreads : Ended(w))
    /\ ~(opc = "barrier" /\ ~flag[oi] /\ Ended(oi))


\* another event is configured on the repository of event e with a type
\* that uses the same snapshot key
SharesKey(e) == \E e2 \in Events : e2 # e /\ SnapKey(kind[e2]) = SnapKey(kind[e])

\* a step in which poll is called on event e and returns
PollReturns(e) == dpc = "poll" /\ di = e /\ lpt'[e] # lpt[e]

\* C38: No missed change with shared snapshot keys - when two events use
\* the same snapshot key, the baseline an event reads in the poll of cycle
\* N+1 is the list this same event fetched in its poll of cycle N, and the
\* payloads of the poll are those of the comparison of the new list with it.
C38_OwnBaseline ==
    [][\A e \in Events :
          (PollReturns(e) /\ SharesKey(e) /\ dcyc >= 2) =>
              /\ baks'[e] = fetched[e]
              /\ out'[e] = PollAction(kind[e], fetched'[e], fetched[e], inc)]_vars


\* the pull requests that are in the list fetched now and were not in the
\* list of the event's poll before
FirstSeen(new, old) ==
    LET Hit(p) == new[p] # "none" /\ old[p] = "none"
    IN  SelectSeq(EntSeq, Hit)

\* C39: Creation detection reports each pull request exactly once - in a
\* daemon that runs without a stop, every poll of a pr_create event returns
\* one payload for each pull request that its fetched list contains for the
\* first time, and none for any other; also for a pull request created
\* between the fetch of a poll and the update of last_poll that ends it.
C39_CreatedOnce ==
    [][\A e \in Events :
          (kind[e] = "pr_create" /\ dpc = "poll" /\ di = e /\ dpc' = "stamp") =>
              out'[e] = FirstSeen(fetched'[e], fetched[e])]_vars

====
